---------------------------- MODULE Spec2Model ----------------------------
(***************************************************************************)
(* A model of pypi_cli.py: the `stat` command loop, the Package            *)
(* aggregation properties and the bargraph renderer.                       *)
(*                                                                         *)
(* Python strings are sequences of one-character strings, so that len(),   *)
(* slicing, padding and comparison are computed and not assumed.  Python's *)
(* None is the value None below, which is no such sequence.                *)
(*                                                                         *)
(* Three specifications share the variables:                               *)
(*   Spec          - one invocation of `pypi stat PACKAGE...`              *)
(*   SpecAggregate - the Package properties applied to a raw release       *)
(*                   mapping                                               *)
(*   SpecBargraph  - bargraph(data, max_key_width) at a terminal width     *)
(***************************************************************************)
EXTENDS Integers, Sequences, FiniteSets, TLC

VARIABLES
    package,    \* stat: the tuple of command-line arguments
    graph,      \* stat: the --graph/--no-graph flag
    i,          \* stat: index of the argument the for loop is at
    pc,         \* stat: the statement the loop body is at
    pkg,        \* stat: the Package object of this iteration (name, url, lazy attributes)
    loc,        \* stat: the local variables of the loop body
    client,     \* the GETs the requests.Session has issued, in order
    stdout,     \* lines echoed to standard output, in order
    stderr,     \* lines echoed to standard error, in order
    exit,       \* how the invocation ended, or that it is still running
    divisions,  \* the denominators average_downloads has divided by, in order
    arg,        \* SpecAggregate/SpecBargraph: the input of the call
    ret         \* SpecAggregate/SpecBargraph: what the call returned

vars == <<package, graph, i, pc, pkg, loc, client, stdout, stderr, exit,
          divisions, arg, ret>>

statVars == <<package, graph, i, pc, pkg, loc, client, stdout, stderr, exit,
              divisions>>

---------------------------------------------------------------------------
(* Bounds of the model *)

MaxArgs == 2
MaxReleases == 3
MaxRows == 2
MaxTermWidth == 26

---------------------------------------------------------------------------
(* Program constants *)

MARGIN == 3
_COLOR_LEN == 9
DefaultMaxKeyWidth == 30

TICK == "*"

None == <<"None">>

DEFAULT_PYPI ==
    <<"h","t","t","p",":","/","/","p","y","p","i",".","p","y","t","h","o","n",
      ".","o","r","g","/","p","y","p","i">>

---------------------------------------------------------------------------
(* Strings *)

Min(a, b) == IF a <= b THEN a ELSE b

Range(s) == {s[k] : k \in DOMAIN s}

Last(s) == s[Len(s)]

Digit == <<"0","1","2","3","4","5","6","7","8","9">>

DigitVal(c) == (CHOOSE k \in 1..10 : Digit[k] = c) - 1

\* ord(c) for the characters upload_time strings are made of
Ord(c) ==
    CASE c = "-" -> 45
      [] c \in Range(Digit) -> 48 + DigitVal(c)
      [] c = ":" -> 58
      [] c = "T" -> 84

\* a < b on Python strings: code-point order, a proper prefix is smaller
StrLess(a, b) ==
    \E k \in 1..(Min(Len(a), Len(b)) + 1) :
        /\ \A j \in 1..(k - 1) : a[j] = b[j]
        /\ \/ k > Len(a) /\ k <= Len(b)
           \/ k <= Len(a) /\ k <= Len(b) /\ Ord(a[k]) < Ord(b[k])

\* StrRepeat, were a negative count to repeat |n| times
StrRepeatAbs(n, s) == [k \in 1..(IF n < 0 THEN -n ELSE n) |-> s]

\* n * s for an int n and a str s: the empty string when n <= 0
StrRepeat(n, s) == [k \in 1..n |-> s]

\* s[:n] for n >= 0
Slice(s, n) == SubSeq(s, 1, Min(n, Len(s)))

\* '{0:w}'.format(s) for a str s: left-aligned, padded with spaces to width w
PadRight(s, w) == s \o StrRepeat(w - Len(s), " ")

\* '{0:w}'.format(..) for a number already formatted as s: right-aligned
PadLeft(s, w) == StrRepeat(w - Len(s), " ") \o s

RECURSIVE DecimalDigits(_)
DecimalDigits(n) ==
    IF n < 10 THEN <<Digit[n + 1]>>
    ELSE Append(DecimalDigits(n \div 10), Digit[(n % 10) + 1])

RECURSIVE GroupThousands(_)
GroupThousands(ds) ==
    IF Len(ds) <= 3 THEN ds
    ELSE GroupThousands(SubSeq(ds, 1, Len(ds) - 3))
            \o <<",">> \o SubSeq(ds, Len(ds) - 2, Len(ds))

\* '{:,}'.format(n) for n >= 0
FormatGrouped(n) == GroupThousands(DecimalDigits(n))

RECURSIVE Join(_, _)
Join(lines, sep) ==
    IF Len(lines) = 0 THEN <<>>
    ELSE IF Len(lines) = 1 THEN lines[1]
    ELSE lines[1] \o sep \o Join(Tail(lines), sep)

RECURSIVE Sum(_)
Sum(s) == IF Len(s) = 0 THEN 0 ELSE s[1] + Sum(Tail(s))

---------------------------------------------------------------------------
(* Package: the aggregation over data['releases'].  A mapping is the      *)
(* sequence of its items in iteration order.                               *)

UploadTime(item) == item[2][1].upload_time

\* InsertSorted, were x to go before the elements equal to it
RECURSIVE InsertSortedUnstable(_, _)
InsertSortedUnstable(x, s) ==
    IF Len(s) = 0 THEN <<x>>
    ELSE IF StrLess(UploadTime(s[1]), UploadTime(x))
         THEN <<s[1]>> \o InsertSortedUnstable(x, Tail(s))
         ELSE <<x>> \o s

\* one insertion of a stable sort: x goes after every element that is not
\* greater than it
RECURSIVE InsertSorted(_, _)
InsertSorted(x, s) ==
    IF Len(s) = 0 THEN <<x>>
    ELSE IF StrLess(UploadTime(x), UploadTime(s[1]))
         THEN <<x>> \o s
         ELSE <<s[1]>> \o InsertSorted(x, Tail(s))

\* sorted(items, key=lambda x: x[1][0]['upload_time'])
RECURSIVE SortedByUploadTime(_)
SortedByUploadTime(items) ==
    IF Len(items) = 0 THEN <<>>
    ELSE InsertSorted(Last(items),
                      SortedByUploadTime(SubSeq(items, 1, Len(items) - 1)))

\* [(ver, releases) for ver, releases in items if len(releases) > 0]
FilterNonEmpty(items) == SelectSeq(items, LAMBDA it : Len(it[2]) > 0)

ReleaseInfo(releases) == SortedByUploadTime(FilterNonEmpty(releases))

DownloadCount(info) == Sum([k \in DOMAIN info |-> info[k].downloads])

VersionDownloads(release_info) ==
    [k \in DOMAIN release_info |->
        <<release_info[k][1], DownloadCount(release_info[k][2])>>]

Versions(release_info) == [k \in DOMAIN release_info |-> release_info[k][1]]

Downloads(version_downloads) ==
    Sum([k \in DOMAIN version_downloads |-> version_downloads[k][2]])

\* ScanMax, were an equal item to replace the running one
RECURSIVE ScanMaxLast(_, _)
ScanMaxLast(best, rest) ==
    IF Len(rest) = 0 THEN best
    ELSE ScanMaxLast(IF rest[1][2] >= best[2] THEN rest[1] ELSE best, Tail(rest))

\* max(items, key=...) and min(items, key=...) keep the first extreme item:
\* the running item is replaced only by a strictly greater (smaller) one
RECURSIVE ScanMax(_, _)
ScanMax(best, rest) ==
    IF Len(rest) = 0 THEN best
    ELSE ScanMax(IF rest[1][2] > best[2] THEN rest[1] ELSE best, Tail(rest))

RECURSIVE ScanMin(_, _)
ScanMin(best, rest) ==
    IF Len(rest) = 0 THEN best
    ELSE ScanMin(IF rest[1][2] < best[2] THEN rest[1] ELSE best, Tail(rest))

MaxVersion(data) ==
    IF Len(data) = 0 THEN <<None, 0>> ELSE ScanMax(data[1], Tail(data))

MinVersion(data) ==
    IF Len(data) = 0 THEN <<None, 0>> ELSE ScanMin(data[1], Tail(data))

\* int(downloads / n) for downloads >= 0 and n > 0
AverageDownloads(downloads, n) == downloads \div n

\* dateparse(s) of a 'YYYY-MM-DD' string, as the number YYYYMMDD
DateParse(s) ==
    LET d(k) == DigitVal(s[k])
    IN  (d(1) * 1000 + d(2) * 100 + d(3) * 10 + d(4)) * 10000
            + (d(6) * 10 + d(7)) * 100 + d(9) * 10 + d(10)

\* time.strftime('%y/%m/%d', dateparse(s).timetuple())
DateFormatted(s) == <<s[3], s[4], "/", s[6], s[7], "/", s[9], s[10]>>

VersionDates(release_info) ==
    [k \in DOMAIN release_info |->
        <<release_info[k][1], UploadTime(release_info[k])>>]

---------------------------------------------------------------------------
(* bargraph.  data is the sequence of (key, value) items of the mapping.   *)

\* CeilDiv, were the quotient floored
CeilDivFloor(a, b) == a \div b

\* int(math.ceil(a / b)) for b > 0, a of either sign
CeilDiv(a, b) == -((-a) \div b)

\* the repeat count int(math.ceil(max_bar_width * value / max_val)) of a row,
\* as a one-element sequence; the division raises ZeroDivisionError when
\* max_val = 0, and then there is no count
BarCount(max_bar_width, value, max_val) ==
    IF max_val = 0 THEN <<>> ELSE <<CeilDiv(max_bar_width * value, max_val)>>

\* bar = count * TICK, or '' on ZeroDivisionError
Bar(count) == IF count = <<>> THEN <<>> ELSE StrRepeat(count[1], TICK)

\* "{key:{key_width}} [ {value:{val_width},d} ] {bar}"
Template(key, value, bar, key_width, val_width) ==
    PadRight(key, key_width) \o <<" ", "[", " ">>
        \o PadLeft(FormatGrouped(value), val_width)
        \o <<" ", "]", " ">> \o bar

SeqMax(s) == CHOOSE m \in Range(s) : \A x \in Range(s) : x <= m

MaxBarWidth(term_width, max_length, max_val_length) ==
    term_width - MARGIN - (max_length + 3 + max_val_length + 3)

\* max() of an empty sequence raises ValueError
Bargraph(data, max_key_width, term_width) ==
    IF Len(data) = 0
    THEN [exc |-> "ValueError", max_bar_width |-> 0, counts |-> <<>>,
          lines |-> <<>>, text |-> <<>>]
    ELSE
    LET max_length == Min(SeqMax([k \in DOMAIN data |-> Len(data[k][1])]),
                          max_key_width)
        max_val == SeqMax([k \in DOMAIN data |-> data[k][2]])
        max_val_length ==
            SeqMax([k \in DOMAIN data |-> Len(FormatGrouped(data[k][2]))])
        max_bar_width == MaxBarWidth(term_width, max_length, max_val_length)
        counts == [k \in DOMAIN data |->
                      BarCount(max_bar_width, data[k][2], max_val)]
        lines == [k \in DOMAIN data |->
                     Template(Slice(data[k][1], max_length), data[k][2],
                              Bar(counts[k]), max_length, max_val_length)]
    IN  [exc |-> "none", max_bar_width |-> max_bar_width, counts |-> counts,
         lines |-> lines, text |-> Join(lines, <<"\n">>)]

\* click.style(version, fg='cyan'): ESC[36m version ESC[0m, where "ESC" is
\* the one character U+001B
Style(text) == <<"ESC", "[", "3", "6", "m">> \o text \o <<"ESC", "[", "0", "m">>

\* "{0:16} {1}".format(style(version, fg='cyan'), date_formatted)
ChartKey(version, date_formatted) ==
    PadRight(Style(version), 16) \o <<" ">> \o date_formatted

\* version_dates.get(version): every version of version_downloads has a date,
\* both come from release_info
ChartData(version_downloads, version_dates) ==
    [k \in DOMAIN version_downloads |->
        <<ChartKey(version_downloads[k][1], DateFormatted(version_dates[k][2])),
          version_downloads[k][2]>>]

---------------------------------------------------------------------------
(* PYPI_RE *)

Letter ==
    {"a","b","c","d","e","f","g","h","i","j","k","l","m","n","o","p","q","r",
     "s","t","u","v","w","x","y","z","A","B","C","D","E","F","G","H","I","J",
     "K","L","M","N","O","P","Q","R","S","T","U","V","W","X","Y","Z"}

\* [-A-Za-z0-9.]
NameChar == Letter \cup Range(Digit) \cup {"-", "."}

\* [-A-Za-z0-9.]+ over the whole of t
NameSeg(t) == Len(t) >= 1 /\ \A k \in DOMAIN t : t[k] \in NameChar

StartsWith(s, p) == Len(s) >= Len(p) /\ SubSeq(s, 1, Len(p)) = p

\* the matches of  (?:(?P<pypi>https?://[^/]+/pypi)/)?(?P<name>..)(?:/(?P<version>..))?
\* that end at position e of s, as records of the three groups
MatchesEndingAt(s, e) ==
    LET t == SubSeq(s, 1, e)
        \* name(/version)? from position b to the end of t
        tails(b, pypi) ==
            {[pypi |-> pypi, name |-> SubSeq(t, b, n),
              version |-> IF n = e THEN None ELSE SubSeq(t, n + 2, e)] :
                n \in {n \in b..e :
                        /\ NameSeg(SubSeq(t, b, n))
                        /\ \/ n = e
                           \/ /\ n + 1 <= e
                              /\ t[n + 1] = "/"
                              /\ NameSeg(SubSeq(t, n + 2, e))}}
        schemes == {<<"h","t","t","p",":","/","/">>,
                    <<"h","t","t","p","s",":","/","/">>}
        \* the end positions of  https?://[^/]+/pypi  when "/" follows
        prefixes ==
            {p \in 1..e :
                \E sc \in schemes : \E h \in 1..e :
                    /\ StartsWith(t, sc)
                    /\ p = Len(sc) + h + 5
                    /\ p + 1 <= e
                    /\ \A k \in (Len(sc) + 1)..(Len(sc) + h) : t[k] # "/"
                    /\ SubSeq(t, Len(sc) + h + 1, p) = <<"/","p","y","p","i">>
                    /\ t[p + 1] = "/"}
    IN  UNION {tails(p + 2, SubSeq(t, 1, p)) : p \in prefixes}
            \cup tails(1, None)

\* PYPI_RE.match(s): $ matches at the end of s and before a final newline.
\* The result is the set of matches: empty when there is none (m is None),
\* and the pattern has at most one.
PYPI_RE_match(s) ==
    LET ends == {Len(s)} \cup
                (IF Len(s) >= 1 /\ Last(s) = "\n" THEN {Len(s) - 1} ELSE {})
    IN  UNION {MatchesEndingAt(s, e) : e \in ends}

\* m.group(g) of the match
Group(m, g) == (CHOOSE x \in m : TRUE)[g]

---------------------------------------------------------------------------
(* The Package object.  A property is evaluated in a context                *)
(*   s = [self, client, divisions]                                        *)
(* (the object, the GETs issued so far, the divisions made so far) against *)
(* resp, the response the index gives to a GET issued now.  The result is  *)
(* [s, exc, val]: the context afterwards, the exception raised ("none" if  *)
(* none) and the value returned.                                           *)

NoLazy == [a \in {} |-> 0]

\* Package(name, pypi_url=pypi_url, client=client).  at is the position of the
\* argument the object was built for; it labels the GETs and is not read.
Package(name, pypi_url, at) ==
    [name |-> name,
     url |-> pypi_url \o <<"/">> \o name \o <<"/","j","s","o","n">>,
     lazy |-> NoLazy,
     at |-> at]

Return(s, v) == [s |-> s, exc |-> "none", val |-> v]

Raise(s, e) == [s |-> s, exc |-> e, val |-> None]

\* hasattr(self, attr_name)
HasAttr(self, attr) == attr \in DOMAIN self.lazy

\* SetAttr, were the attribute never set
SetAttrDropped(self, attr, v) == self

\* setattr(self, attr_name, v)
SetAttr(self, attr, v) == [self EXCEPT !.lazy = (attr :> v) @@ self.lazy]

\* lazy_property(fn): computed is the evaluation of fn(self) in s, and is
\* evaluated only when the attribute is not set
Lazy(s, attr, computed) ==
    IF HasAttr(s.self, attr) THEN Return(s, s.self.lazy[attr])
    ELSE IF computed.exc # "none" THEN computed
    ELSE Return([computed.s EXCEPT !.self = SetAttr(computed.s.self, attr, computed.val)],
                computed.val)

\* self.client.get(self.url)
ClientGet(s, resp) ==
    [s EXCEPT !.client = Append(s.client,
        [url |-> s.self.url, status |-> resp.status_code, at |-> s.self.at])]

Data(s, resp) ==
    Lazy(s, "data",
         IF resp.status_code = 404
         THEN Raise(ClientGet(s, resp), "NotFoundError")
         ELSE Return(ClientGet(s, resp), resp.json))

\* r is an evaluation; unless it raised, the result is v, computed from its
\* value
Then(r, v) == IF r.exc # "none" THEN r ELSE Return(r.s, v)

ReleaseInfoP(s, resp) ==
    LET data == Data(s, resp) IN Then(data, ReleaseInfo(data.val.releases))

VersionsP(s, resp) ==
    Lazy(s, "versions",
         LET release_info == ReleaseInfoP(s, resp)
         IN  Then(release_info, Versions(release_info.val)))

VersionDownloadsP(s, resp) ==
    Lazy(s, "version_downloads",
         LET release_info == ReleaseInfoP(s, resp)
         IN  Then(release_info, VersionDownloads(release_info.val)))

VersionDatesP(s, resp) ==
    Lazy(s, "version_dates",
         LET release_info == ReleaseInfoP(s, resp)
         IN  Then(release_info, VersionDates(release_info.val)))

DownloadsP(s, resp) ==
    Lazy(s, "downloads",
         LET data == VersionDownloadsP(s, resp)
         IN  Then(data, Downloads(data.val)))

MaxVersionP(s, resp) ==
    Lazy(s, "max_version",
         LET data == VersionDownloadsP(s, resp)
         IN  Then(data, MaxVersion(data.val)))

MinVersionP(s, resp) ==
    Lazy(s, "min_version",
         LET data == VersionDownloadsP(s, resp)
         IN  Then(data, MinVersion(data.val)))

\* int(self.downloads / len(self.versions)): downloads is read first, then
\* versions, then the division is made
AverageDownloadsP(s, resp) ==
    Lazy(s, "average_downloads",
         LET d == DownloadsP(s, resp)
         IN  IF d.exc # "none" THEN d
             ELSE LET v == VersionsP(d.s, resp)
                  IN  IF v.exc # "none" THEN v
                      ELSE LET s2 == [v.s EXCEPT !.divisions =
                                         Append(v.s.divisions, Len(v.val))]
                           IN  IF Len(v.val) = 0
                               THEN Raise(s2, "ZeroDivisionError")
                               ELSE Return(s2, AverageDownloads(d.val, Len(v.val))))

PackageUrlP(s, resp) ==
    LET data == Data(s, resp) IN Then(data, data.val.info.package_url)

DownloadsLastDayP(s, resp) ==
    LET data == Data(s, resp) IN Then(data, data.val.info.downloads.last_day)

DownloadsLastWeekP(s, resp) ==
    LET data == Data(s, resp) IN Then(data, data.val.info.downloads.last_week)

DownloadsLastMonthP(s, resp) ==
    LET data == Data(s, resp) IN Then(data, data.val.info.downloads.last_month)

\* chart(): version_dates is read inside the loop over version_downloads, so
\* not at all when that is empty; bargraph raises on empty data
ChartP(s, resp, term_width) ==
    LET vd == VersionDownloadsP(s, resp)
    IN  IF vd.exc # "none" THEN vd
        ELSE IF Len(vd.val) = 0 THEN Raise(vd.s, "ValueError")
        ELSE LET dates == VersionDatesP(vd.s, resp)
             IN  IF dates.exc # "none" THEN dates
                 ELSE Return(dates.s,
                             Bargraph(ChartData(vd.val, dates.val),
                                      20 + _COLOR_LEN, term_width).text)

---------------------------------------------------------------------------
(* The inputs of an invocation and the answers of the index *)

ArgName == <<"f","l","a","s","k">>

ArgUrl == <<"h","t","t","p",":","/","/","h","/","p","y","p","i","/","a","/","1",".","0">>

ArgNoName == <<"h","t","t","p",":","/","/">>

ArgSpace == <<"a"," ","b">>

Args == {ArgName, ArgUrl, ArgNoName, ArgSpace}

File(downloads, upload_time) ==
    [downloads |-> downloads, upload_time |-> upload_time]

Day1 == <<"2","0","1","9","-","1","2","-","3","1">>

Day2 == <<"2","0","2","0","-","0","1","-","0","9">>

Day3 == <<"2","0","2","0","-","0","1","-","1","0">>

V09 == <<"0",".","9">>

V10 == <<"1",".","0">>

V20 == <<"2",".","0">>

Info ==
    [downloads |-> [last_day |-> 1, last_week |-> 7, last_month |-> 30],
     package_url |-> <<"h","t","t","p",":","/","/","h","/","p","y","p","i","/","a">>,
     home_page |-> <<"h","t","t","p",":","/","/","a">>]

Json(releases) == [releases |-> releases, info |-> Info]

\* releases in the order the decoded mapping iterates them
ReleasesTwo ==
    << <<V20, <<File(30, Day3)>>>>, <<V09, <<>>>>,
       <<V10, <<File(4, Day2), File(6, Day1)>>>> >>

ReleasesNoFiles == << <<V09, <<>>>> >>

Responses ==
    {[status_code |-> 404, json |-> Json(<<>>)],
     [status_code |-> 200, json |-> Json(ReleasesTwo)],
     [status_code |-> 200, json |-> Json(ReleasesNoFiles)],
     [status_code |-> 200, json |-> Json(<<>>)]}

\* get_terminal_size()[0]
StatTermWidths == {20, 80}

RECURSIVE SeqsUpTo(_, _)
SeqsUpTo(S, n) ==
    IF n = 0 THEN {<<>>}
    ELSE LET shorter == SeqsUpTo(S, n - 1)
         IN  shorter \cup {Append(q, x) : q \in {q \in shorter : Len(q) = n - 1}, x \in S}

---------------------------------------------------------------------------
(* stat *)

Running == [kind |-> "running", message |-> <<>>, at |-> 0]

Done == [kind |-> "done", message |-> <<>>, at |-> 0]

\* raise click.ClickException(message) while the loop is at argument k
ClickException(message, k) ==
    [kind |-> "ClickException", message |-> message, at |-> k]

\* an exception nothing catches
Uncaught(exc, k) == [kind |-> "uncaught", message |-> <<exc>>, at |-> k]

\* abort_not_found, were it to return without raising
AbortNotFoundReturns(name) == <<>>

\* abort_not_found(name): the message of the ClickException it raises; the
\* empty message stands for a return without raising
abort_not_found(name) ==
    <<"No versions of \"", name,
      "\" were found. Please try your search again. NOTE: Case matters.">>

\* IsNoReleases, were the versions compared with '' and not with None
IsNoReleasesEmptyString(min_ver, max_ver) == min_ver = <<>> \/ max_ver = <<>>

\* min_ver is None or max_ver is None
IsNoReleases(min_ver, max_ver) == min_ver = None \/ max_ver = None

NoLocals ==
    [name |-> None, version_downloads |-> <<>>,
     min_ver |-> None, min_downloads |-> 0,
     max_ver |-> None, max_downloads |-> 0,
     avg_downloads |-> 0, total |-> 0]

NoPackage == Package(<<>>, <<>>, 0)

\* echo(fmt.format(val)) while the loop is at argument k
Line(k, fmt, val) == [at |-> k, fmt |-> fmt, val |-> val]

Context == [self |-> pkg, client |-> client, divisions |-> divisions]

Commit(s) ==
    /\ pkg' = s.self
    /\ client' = s.client
    /\ divisions' = s.divisions

\* the exception of evaluation r propagates out of stat
Propagate(r) ==
    /\ Commit(r.s)
    /\ exit' = Uncaught(r.exc, i)
    /\ pc' = "exit"
    /\ UNCHANGED <<package, graph, i, loc, stdout, stderr, arg, ret>>

\* the end of the loop body, and `continue`: the next argument, or the end
\* of the loop and of stat
NextArgument ==
    /\ i' = i + 1
    /\ IF i + 1 > Len(package)
       THEN pc' = "exit" /\ exit' = Done
       ELSE pc' = "match" /\ UNCHANGED exit

InitStat ==
    /\ package \in SeqsUpTo(Args, MaxArgs) \ {<<>>}
    /\ graph \in BOOLEAN
    /\ i = 1
    /\ pc = "match"
    /\ pkg = NoPackage
    /\ loc = NoLocals
    /\ client = <<>>
    /\ stdout = <<>>
    /\ stderr = <<>>
    /\ exit = Running
    /\ divisions = <<>>

Init == InitStat /\ arg = <<>> /\ ret = <<>>

\* StatMatch, were a malformed argument to raise and not to continue
StatMatchAborts ==
    /\ pc = "match"
    /\ LET m == PYPI_RE_match(package[i])
       IN  IF m = {}
           THEN /\ exit' = ClickException(<<"Invalid name or URL: \"{name}\"", package[i]>>, i)
                /\ pc' = "exit"
                /\ UNCHANGED <<i, stderr, pkg, loc>>
           ELSE /\ pkg' = Package(Group(m, "name"),
                                  IF Group(m, "pypi") = None THEN DEFAULT_PYPI
                                  ELSE Group(m, "pypi"), i)
                /\ loc' = [loc EXCEPT !.name = Group(m, "name")]
                /\ pc' = "fetch"
                /\ UNCHANGED <<i, stderr, exit>>
    /\ UNCHANGED <<package, graph, client, stdout, divisions, arg, ret>>

\* lines 95-103: the match, the report of a malformed argument, the Package
StatMatch ==
    /\ pc = "match"
    /\ LET m == PYPI_RE_match(package[i])
       IN  IF m = {}
           THEN /\ stderr' = Append(stderr,
                        Line(i, "Invalid name or URL: \"{name}\"", package[i]))
                /\ NextArgument
                /\ UNCHANGED <<pkg, loc>>
           ELSE /\ pkg' = Package(Group(m, "name"),
                                  IF Group(m, "pypi") = None THEN DEFAULT_PYPI
                                  ELSE Group(m, "pypi"), i)
                /\ loc' = [loc EXCEPT !.name = Group(m, "name")]
                /\ pc' = "fetch"
                /\ UNCHANGED <<i, stderr, exit>>
    /\ UNCHANGED <<package, graph, client, stdout, divisions, arg, ret>>

\* lines 104-107: version_downloads, and abort_not_found on NotFoundError
StatFetch ==
    /\ pc = "fetch"
    /\ \E resp \in Responses :
        LET r == VersionDownloadsP(Context, resp)
        IN  IF r.exc = "NotFoundError"
            THEN /\ Commit(r.s)
                 /\ IF abort_not_found(loc.name) = <<>>
                    THEN pc' = "echo_url" /\ UNCHANGED exit
                    ELSE /\ exit' = ClickException(abort_not_found(loc.name), i)
                         /\ pc' = "exit"
                 /\ UNCHANGED <<package, graph, i, loc, stdout, stderr, arg, ret>>
            ELSE IF r.exc # "none" THEN Propagate(r)
            ELSE /\ Commit(r.s)
                 /\ loc' = [loc EXCEPT !.version_downloads = r.val]
                 /\ pc' = "echo_url"
                 /\ UNCHANGED <<package, graph, i, stdout, stderr, exit, arg, ret>>

\* line 108
StatEchoUrl ==
    /\ pc = "echo_url"
    /\ \E resp \in Responses :
        LET r == PackageUrlP(Context, resp)
        IN  IF r.exc # "none" THEN Propagate(r)
            ELSE /\ Commit(r.s)
                 /\ stdout' = Append(stdout,
                        Line(i, "Fetching statistics for '{url}'. . .", r.val))
                 /\ pc' = "min_max"
                 /\ UNCHANGED <<package, graph, i, loc, stderr, exit, arg, ret>>

\* StatMinMax, were the header of lines 115-116 echoed before the check
StatMinMaxAfterHeader ==
    /\ pc = "min_max"
    /\ \E resp \in Responses :
        LET mn == MinVersionP(Context, resp)
            mx == MaxVersionP(mn.s, resp)
        IN  IF mn.exc # "none" THEN Propagate(mn)
            ELSE IF mx.exc # "none" THEN Propagate(mx)
            ELSE /\ Commit(mx.s)
                 /\ loc' = [loc EXCEPT !.min_ver = mn.val[1],
                                       !.min_downloads = mn.val[2],
                                       !.max_ver = mx.val[1],
                                       !.max_downloads = mx.val[2]]
                 /\ stdout' = stdout \o
                        <<Line(i, "", <<>>),
                          Line(i, "Download statistics for {name}", loc.name)>>
                 /\ IF IsNoReleases(mn.val[1], mx.val[1])
                    THEN /\ exit' = ClickException(<<"Package has no releases">>, i)
                         /\ pc' = "exit"
                    ELSE pc' = "average" /\ UNCHANGED exit
                 /\ UNCHANGED <<package, graph, i, stderr, arg, ret>>

\* lines 109-112: min_version, max_version and the check of the sentinel
StatMinMax ==
    /\ pc = "min_max"
    /\ \E resp \in Responses :
        LET mn == MinVersionP(Context, resp)
            mx == MaxVersionP(mn.s, resp)
        IN  IF mn.exc # "none" THEN Propagate(mn)
            ELSE IF mx.exc # "none" THEN Propagate(mx)
            ELSE /\ Commit(mx.s)
                 /\ loc' = [loc EXCEPT !.min_ver = mn.val[1],
                                       !.min_downloads = mn.val[2],
                                       !.max_ver = mx.val[1],
                                       !.max_downloads = mx.val[2]]
                 /\ IF IsNoReleases(mn.val[1], mx.val[1])
                    THEN /\ exit' = ClickException(<<"Package has no releases">>, i)
                         /\ pc' = "exit"
                    ELSE pc' = "average" /\ UNCHANGED exit
                 /\ UNCHANGED <<package, graph, i, stdout, stderr, arg, ret>>

\* lines 113-114: average_downloads, then downloads
StatAverage ==
    /\ pc = "average"
    /\ \E resp \in Responses :
        LET avg == AverageDownloadsP(Context, resp)
            total == DownloadsP(avg.s, resp)
        IN  IF avg.exc # "none" THEN Propagate(avg)
            ELSE IF total.exc # "none" THEN Propagate(total)
            ELSE /\ Commit(total.s)
                 /\ loc' = [loc EXCEPT !.avg_downloads = avg.val,
                                       !.total = total.val]
                 /\ pc' = "header"
                 /\ UNCHANGED <<package, graph, i, stdout, stderr, exit, arg, ret>>

\* lines 115-116
StatHeader ==
    /\ pc = "header"
    /\ stdout' = stdout \o
            <<Line(i, "", <<>>),
              Line(i, "Download statistics for {name}", loc.name)>>
    /\ pc' = "chart"
    /\ UNCHANGED <<package, graph, i, pkg, loc, client, stderr, exit,
                   divisions, arg, ret>>

\* lines 117-120
StatChart ==
    /\ pc = "chart"
    /\ IF graph
       THEN \E resp \in Responses : \E term_width \in StatTermWidths :
                LET r == ChartP(Context, resp, term_width)
                IN  IF r.exc # "none"
                    THEN /\ Commit(r.s)
                         /\ exit' = Uncaught(r.exc, i)
                         /\ pc' = "exit"
                         /\ stdout' = stdout \o
                                <<Line(i, "", <<>>),
                                  Line(i, "Downloads by version", <<>>)>>
                         /\ UNCHANGED <<package, graph, i, loc, stderr, arg, ret>>
                    ELSE /\ Commit(r.s)
                         /\ stdout' = stdout \o
                                <<Line(i, "", <<>>),
                                  Line(i, "Downloads by version", <<>>),
                                  Line(i, "{chart}", r.val)>>
                         /\ pc' = "summary"
                         /\ UNCHANGED <<package, graph, i, loc, stderr, exit, arg, ret>>
       ELSE /\ pc' = "summary"
            /\ UNCHANGED <<package, graph, i, pkg, loc, client, stdout, stderr,
                           exit, divisions, arg, ret>>

\* lines 121-126
StatSummary ==
    /\ pc = "summary"
    /\ stdout' = stdout \o
            <<Line(i, "", <<>>),
              Line(i, "Min downloads:   {min_downloads:12,} ({min_ver})",
                   <<loc.min_downloads, loc.min_ver>>),
              Line(i, "Max downloads:   {max_downloads:12,} ({max_ver})",
                   <<loc.max_downloads, loc.max_ver>>),
              Line(i, "Avg downloads:   {avg_downloads:12,}", loc.avg_downloads),
              Line(i, "Total downloads: {total:12,}", loc.total),
              Line(i, "", <<>>)>>
    /\ pc' = "windows"
    /\ UNCHANGED <<package, graph, i, pkg, loc, client, stderr, exit,
                   divisions, arg, ret>>

\* lines 127-130, and the end of the loop body
StatWindows ==
    /\ pc = "windows"
    /\ \E resp \in Responses :
        LET day == DownloadsLastDayP(Context, resp)
            week == DownloadsLastWeekP(day.s, resp)
            month == DownloadsLastMonthP(week.s, resp)
        IN  IF day.exc # "none" THEN Propagate(day)
            ELSE IF week.exc # "none"
            THEN /\ Propagate(week)
            ELSE IF month.exc # "none"
            THEN /\ Propagate(month)
            ELSE /\ Commit(month.s)
                 /\ stdout' = stdout \o
                        <<Line(i, "Last day:    {daily:12,}", day.val),
                          Line(i, "Last week:   {weekly:12,}", week.val),
                          Line(i, "Last month:  {monthly:12,}", month.val),
                          Line(i, "", <<>>)>>
                 /\ NextArgument
                 /\ UNCHANGED <<package, graph, loc, stderr, arg, ret>>

Next ==
    \/ StatMatch
    \/ StatFetch
    \/ StatEchoUrl
    \/ StatMinMax
    \/ StatAverage
    \/ StatHeader
    \/ StatChart
    \/ StatSummary
    \/ StatWindows

Spec == Init /\ [][Next]_vars

---------------------------------------------------------------------------
(* The Package properties applied to a raw release mapping *)

V30 == <<"3",".","0">>

V31 == <<"3",".","1">>

\* the keys of a raw mapping, by position in its iteration order
VersionNames == <<V10, V20, V09, V30, V31>>

FileLists ==
    {<<>>,
     <<File(1, Day2)>>,
     <<File(1, Day3)>>,
     <<File(2, Day2)>>,
     <<File(0, Day1), File(2, Day3)>>,
     <<File(1, Day3), File(1, Day1)>>}

RawReleases ==
    {[k \in DOMAIN q |-> <<VersionNames[k], q[k]>>] :
        q \in SeqsUpTo(FileLists, MaxReleases)}

StatIdle ==
    /\ package = <<>>
    /\ graph = FALSE
    /\ i = 0
    /\ pc = "idle"
    /\ pkg = NoPackage
    /\ loc = NoLocals
    /\ client = <<>>
    /\ stdout = <<>>
    /\ stderr = <<>>
    /\ exit = Running
    /\ divisions = <<>>

NotCalled == [fn |-> "none"]

InitAggregate == StatIdle /\ arg \in RawReleases /\ ret = NotCalled

CallReleaseInfo ==
    /\ ret = NotCalled
    /\ ret' = [fn |-> "release_info", val |-> ReleaseInfo(arg)]
    /\ UNCHANGED <<statVars, arg>>

CallVersionDownloads ==
    /\ ret = NotCalled
    /\ ret' = [fn |-> "version_downloads",
               val |-> VersionDownloads(ReleaseInfo(arg))]
    /\ UNCHANGED <<statVars, arg>>

CallMinVersion ==
    /\ ret = NotCalled
    /\ LET data == VersionDownloads(ReleaseInfo(arg))
       IN  ret' = [fn |-> "min_version", data |-> data, val |-> MinVersion(data)]
    /\ UNCHANGED <<statVars, arg>>

CallMaxVersion ==
    /\ ret = NotCalled
    /\ LET data == VersionDownloads(ReleaseInfo(arg))
       IN  ret' = [fn |-> "max_version", data |-> data, val |-> MaxVersion(data)]
    /\ UNCHANGED <<statVars, arg>>

NextAggregate ==
    \/ CallReleaseInfo
    \/ CallVersionDownloads
    \/ CallMinVersion
    \/ CallMaxVersion

SpecAggregate == InitAggregate /\ [][NextAggregate]_vars

---------------------------------------------------------------------------
(* bargraph applied to a mapping at a terminal width *)

BarKeys == {V10, <<"2",".","0",".","1">>,
            <<"1","0",".","0",".","0","-","b","e","t","a">>}

BarValues == {0, 1, 3, 1000}

MaxKeyWidths == {4, DefaultMaxKeyWidth}

\* the mappings of at most MaxRows items, and the empty one: keys are distinct
BarData ==
    {d \in SeqsUpTo(BarKeys \X BarValues, MaxRows) :
        \A m, n \in DOMAIN d : m # n => d[m][1] # d[n][1]}

InitBargraph ==
    /\ StatIdle
    /\ arg \in [data : BarData, max_key_width : MaxKeyWidths]
    /\ ret = NotCalled

CallBargraph ==
    /\ ret = NotCalled
    /\ \E term_width \in 0..MaxTermWidth :
        ret' = [fn |-> "bargraph", term_width |-> term_width,
                out |-> Bargraph(arg.data, arg.max_key_width, term_width)]
    /\ UNCHANGED <<statVars, arg>>

NextBargraph == CallBargraph

SpecBargraph == InitBargraph /\ [][NextBargraph]_vars

---------------------------------------------------------------------------
(* Properties of stat (Spec) *)

\* the argument at position k matches PYPI_RE
Valid(k) == PYPI_RE_match(package[k]) # {}

\* the loop has dealt with the malformed argument at position k
Processed(k) == k < i \/ (k = i /\ pc # "match")

\* the loop has evaluated version_downloads for the argument at position k
Fetched(k) == k < i \/ (k = i /\ pc \notin {"match", "fetch"})

GetsAt(k) == {n \in DOMAIN client : client[n].at = k}

OutAt(k) == {n \in DOMAIN stdout : stdout[n].at = k}

ErrAt(k) == {n \in DOMAIN stderr : stderr[n].at = k}

Aborted == exit.kind \in {"ClickException", "uncaught"}

NoReleasesMessage == <<"Package has no releases">>

FetchingFmt == "Fetching statistics for '{url}'. . ."

\* C1: a malformed argument is reported once on the error stream, causes no
\* GET and no line on standard output, and is skipped: the loop moves past
\* it, the invocation does not end at it, and when the invocation runs to its
\* end every later argument has been dealt with (a valid one fetched and
\* reported, a malformed one reported on the error stream).
C1_MalformedArgumentSkipped ==
    \A k \in DOMAIN package :
        (~Valid(k) /\ Processed(k)) =>
            /\ Cardinality(ErrAt(k)) = 1
            /\ \A n \in ErrAt(k) :
                /\ stderr[n].fmt = "Invalid name or URL: \"{name}\""
                /\ stderr[n].val = package[k]
            /\ GetsAt(k) = {}
            /\ OutAt(k) = {}
            /\ i > k
            /\ Aborted => exit.at > k
            /\ exit.kind = "done" =>
                \A j \in (k + 1)..Len(package) :
                    IF Valid(j) THEN GetsAt(j) # {} /\ OutAt(j) # {}
                    ELSE ErrAt(j) # {}

C1_Witness ==
    /\ exit.kind = "done"
    /\ \E k \in DOMAIN package : \E j \in DOMAIN package :
        ~Valid(k) /\ j > k /\ Valid(j) /\ OutAt(j) # {} /\ ErrAt(k) # {}

\* C2: a GET answered 404 ends the invocation with the ClickException whose
\* message names the package of that argument; it is the last GET, and no
\* argument after that one is fetched or reported on either stream.
C2_NotFoundAborts ==
    \A n \in DOMAIN client :
        client[n].status = 404 =>
            LET k == client[n].at
            IN  /\ pc = "exit"
                /\ exit.kind = "ClickException"
                /\ exit.at = k
                /\ Len(exit.message) = 3
                /\ exit.message[2] = Group(PYPI_RE_match(package[k]), "name")
                /\ n = Len(client)
                /\ \A j \in (k + 1)..Len(package) :
                    GetsAt(j) = {} /\ OutAt(j) = {} /\ ErrAt(j) = {}

C2_Witness ==
    /\ exit.kind = "ClickException"
    /\ Len(client) = 2
    /\ client[2].status = 404
    /\ OutAt(1) # {}

\* C3 as stated: after a GET answered 404 for one argument, every later valid
\* argument is still fetched and reported by the time the invocation ends.
C3_Original_NotFoundSkips ==
    \A n \in DOMAIN client :
        (client[n].status = 404 /\ exit.kind # "running") =>
            \A j \in (client[n].at + 1)..Len(package) :
                Valid(j) => GetsAt(j) # {} /\ OutAt(j) # {}

\* C3 as amended: in a multi-package invocation a GET answered 404 surfaces
\* the not-found message and aborts the whole run: the loop stays at that
\* argument, and no later valid argument is fetched or reported.
C3_NotFoundAbortsRun ==
    \A n \in DOMAIN client :
        client[n].status = 404 =>
            /\ exit = ClickException(abort_not_found(loc.name), client[n].at)
            /\ exit.message # <<>>
            /\ i = client[n].at
            /\ \A j \in DOMAIN package :
                (j > i /\ Valid(j)) => GetsAt(j) = {} /\ OutAt(j) = {}

C3_Witness ==
    /\ exit.kind = "ClickException"
    /\ client # <<>>
    /\ Last(client).status = 404
    /\ i < Len(package)
    /\ Valid(i + 1)

\* C4: average_downloads never divides by a zero release count and stat never
\* ends in ZeroDivisionError; a package whose release set is empty after the
\* releases with no files are discarded ends the invocation at the sentinel
\* check with 'Package has no releases', before the average is computed.
C4_NoReleasesBeforeAverage ==
    /\ \A n \in DOMAIN divisions : divisions[n] # 0
    /\ ~(exit.kind = "uncaught" /\ exit.message = <<"ZeroDivisionError">>)
    /\ (/\ HasAttr(pkg, "data")
        /\ ReleaseInfo(pkg.lazy["data"].releases) = <<>>
        /\ pc \notin {"match", "fetch", "echo_url", "min_max"})
        => /\ exit = ClickException(NoReleasesMessage, i)
           /\ ~HasAttr(pkg, "average_downloads")

C4_Witness ==
    /\ exit.kind = "ClickException"
    /\ exit.message = NoReleasesMessage
    /\ HasAttr(pkg, "data")
    /\ pkg.lazy["data"].releases # <<>>

\* C5 as stated: when the invocation ends in a fatal condition, nothing of
\* the report of the package it ended at is on standard output.
C5_Original_NoOutputOnFatal ==
    exit.kind = "ClickException" => OutAt(exit.at) = {}

\* C5 as amended: on NotFound nothing of that package's report is on standard
\* output; on NoReleases exactly its "Fetching statistics" line is, and no
\* header, chart or statistics line.
C5_OutputOnFatal ==
    exit.kind = "ClickException" =>
        IF exit.message = NoReleasesMessage
        THEN /\ Cardinality(OutAt(exit.at)) = 1
             /\ \A n \in OutAt(exit.at) : stdout[n].fmt = FetchingFmt
        ELSE OutAt(exit.at) = {}

C5_Witness ==
    /\ exit.kind = "ClickException"
    /\ exit.message = NoReleasesMessage
    /\ exit.at = 2
    /\ Cardinality(OutAt(2)) = 1
    /\ OutAt(1) # {}

\* C6: every valid argument whose version_downloads has been evaluated has
\* exactly one GET, for the URL of its package, however many properties have
\* been read since; no other argument has a GET.
C6_SingleFetchPerPackage ==
    \A k \in DOMAIN package :
        IF Valid(k) /\ Fetched(k)
        THEN /\ Cardinality(GetsAt(k)) = 1
             /\ \A n \in GetsAt(k) :
                 LET m == PYPI_RE_match(package[k])
                 IN  client[n].url =
                        Package(Group(m, "name"),
                                IF Group(m, "pypi") = None THEN DEFAULT_PYPI
                                ELSE Group(m, "pypi"), k).url
        ELSE GetsAt(k) = {}

C6_Witness ==
    /\ exit.kind = "done"
    /\ graph
    /\ Len(package) = 2
    /\ Len(client) = 2
    /\ \E n \in DOMAIN stdout : stdout[n].fmt = "{chart}"
    /\ \E n \in DOMAIN stdout : stdout[n].fmt = "Last month:  {monthly:12,}"

---------------------------------------------------------------------------
(* Properties of the aggregation (SpecAggregate) *)

\* the position in the raw mapping of the item of release_info
Position(item) == CHOOSE k \in DOMAIN arg : arg[k] = item

\* C7: release_info holds exactly the items of the raw mapping that have at
\* least one file, each once, in non-decreasing order of the upload time of
\* their first file, items of equal time in the order of the raw mapping.
C7_ReleaseInfoFilteredStableSorted ==
    ret.fn = "release_info" =>
        LET out == ret.val
            kept == {k \in DOMAIN arg : Len(arg[k][2]) > 0}
        IN  /\ Len(out) = Cardinality(kept)
            /\ {out[n] : n \in DOMAIN out} = {arg[k] : k \in kept}
            /\ \A m, n \in DOMAIN out :
                m < n =>
                    LET tm == DateParse(out[m][2][1].upload_time)
                        tn == DateParse(out[n][2][1].upload_time)
                    IN  /\ tm <= tn
                        /\ tm = tn => Position(out[m]) < Position(out[n])

C7_Witness ==
    /\ ret.fn = "release_info"
    /\ Len(arg) = 3
    /\ Len(ret.val) = 2
    /\ arg[1][2] # <<>>
    /\ arg[2][2] = <<>>
    /\ arg[1][2][1].upload_time = arg[3][2][1].upload_time
    /\ arg[1][2] # arg[3][2]

\* C8: on a non-empty version_downloads, min_version and max_version return
\* an item of it whose count is a lower (upper) bound of every count, and the
\* first such item in release-history order.
C8_MinMaxFirstExtreme ==
    (ret.fn \in {"min_version", "max_version"} /\ ret.data # <<>>) =>
        \E k \in DOMAIN ret.data :
            /\ ret.val = ret.data[k]
            /\ \A j \in DOMAIN ret.data :
                /\ ret.fn = "min_version" => ret.val[2] <= ret.data[j][2]
                /\ ret.fn = "max_version" => ret.data[j][2] <= ret.val[2]
                /\ j < k => ret.data[j][2] # ret.val[2]

C8_Witness ==
    /\ ret.fn = "max_version"
    /\ Len(ret.data) = 3
    /\ ret.data[1][2] < ret.data[2][2]
    /\ ret.data[2][2] = ret.data[3][2]
    /\ ret.val = ret.data[2]

---------------------------------------------------------------------------
(* Properties of bargraph (SpecBargraph) *)

WideTermWidth == 80

Max(a, b) == IF a >= b THEN a ELSE b

Rendered == ret.fn = "bargraph" /\ ret.out.exc = "none"

\* terminalWidth - 3 - (effectiveKeyWidth + 3 + valueColumnWidth + 3)
Unclamped ==
    LET d == arg.data
        keyWidth == Min(SeqMax([k \in DOMAIN d |-> Len(d[k][1])]),
                        arg.max_key_width)
        valWidth == SeqMax([k \in DOMAIN d |-> Len(FormatGrouped(d[k][2]))])
    IN  ret.term_width - 3 - (keyWidth + 3 + valWidth + 3)

\* the rendering of the same mapping at a wide terminal
Wide == Bargraph(arg.data, arg.max_key_width, WideTermWidth)

\* every row is the row of the wide rendering without its bar
BarsEmptyColumnsAsWide ==
    \A r \in DOMAIN ret.out.lines :
        Wide.lines[r] = ret.out.lines[r] \o Bar(Wide.counts[r])

\* C9 as stated: at a terminal too narrow for the margins the bar area width
\* is clamped to 0, no repeat count is negative, every bar is empty and the
\* label and value columns are those of a wide terminal.
C9_Original_ClampedToZero ==
    (Rendered /\ Unclamped < 0) =>
        /\ ret.out.max_bar_width = 0
        /\ \A r \in DOMAIN ret.out.counts :
            ret.out.counts[r] # <<>> => ret.out.counts[r][1] >= 0
        /\ BarsEmptyColumnsAsWide

\* C9 as amended: at a terminal too narrow for the margins the bar area width
\* is not clamped (it is the negative difference, and a row's repeat count
\* can be negative), and every bar is still the empty string, the label and
\* value columns being those of a wide terminal.
C9_NarrowBarsEmpty ==
    (Rendered /\ Unclamped < 0) =>
        /\ ret.out.max_bar_width = Unclamped
        /\ BarsEmptyColumnsAsWide

C9_Witness ==
    /\ Rendered
    /\ Unclamped < 0
    /\ \E r \in DOMAIN ret.out.counts :
        ret.out.counts[r] # <<>> /\ ret.out.counts[r][1] < 0
    /\ \E r \in DOMAIN Wide.lines : Bar(Wide.counts[r]) # <<>>

\* the number of tick characters row r ends with
Ticks(r) ==
    LET line == ret.out.lines[r]
    IN  CHOOSE n \in 0..Len(line) :
            /\ \A k \in (Len(line) - n + 1)..Len(line) : line[k] = TICK
            /\ n < Len(line) => line[Len(line) - n] # TICK

\* ceiling(a / b) for a >= 0 and b > 0: the least c with c * b >= a
Ceiling(a, b) == CHOOSE c \in 0..a : c * b >= a /\ (c - 1) * b < a

\* C10: every row's bar has exactly ceiling(barAreaWidth * value / maxValue)
\* ticks, barAreaWidth being the width left of the terminal floored at 0 and
\* maxValue the largest value; with maxValue 0 every bar has 0 ticks and
\* bargraph raises nothing.
C10_BarLength ==
    (ret.fn = "bargraph" /\ arg.data # <<>>) =>
        /\ ret.out.exc = "none"
        /\ Len(ret.out.lines) = Len(arg.data)
        /\ LET barAreaWidth == Max(0, Unclamped)
               maxValue == SeqMax([k \in DOMAIN arg.data |-> arg.data[k][2]])
           IN  \A r \in DOMAIN arg.data :
                   Ticks(r) = IF maxValue = 0 THEN 0
                              ELSE Ceiling(barAreaWidth * arg.data[r][2], maxValue)

C10_Witness ==
    /\ Rendered
    /\ Len(arg.data) = 2
    /\ arg.data[1][2] = 1
    /\ arg.data[2][2] = 3
    /\ ret.out.max_bar_width = 4
    /\ Ticks(1) = 2
    /\ Ticks(2) = 4

=============================================================================
